---- MODULE Spec2Model ----
(***************************************************************************)
(* Model of catholic_calendar: the event normaliser and the iCalendar feed *)
(* serialiser (calendar.py) and the command line glue (cli.py).            *)
(*                                                                         *)
(* Python str values are modelled as sequences of one-character strings,   *)
(* so that slicing, replacing, folding and CRLF splitting are computed on  *)
(* characters the way the code computes them.                              *)
(***************************************************************************)
EXTENDS Integers, Sequences, FiniteSets, TLC

VARIABLES
    pc,         \* "call" before the operation under study ran, "return" after
    line,       \* argument of the last _fold_line call
    chunks,     \* its return value
    value,      \* argument of the last _escape_text call
    escaped,    \* its return value
    events,     \* argument `events` of the last build_icalendar call
    cfg,        \* the CalendarConfig it was called with
    now,        \* the clock value read by that call
    result,     \* its outcome: the returned text or the raised exception
    args,       \* keyword arguments of the last generate_calendar call
    fetched,    \* what fetch_calendar answers for each of its years
    calls,      \* the years fetch_calendar was called with, in call order
    file,       \* content of the file at the output path, None while absent
    outcome     \* outcome of generate_calendar: the path or the exception

vars == <<pc, line, chunks, value, escaped, events, cfg, now, result,
          args, fetched, calls, file, outcome>>

(***************************************************************************)
(* Bounds of the model.                                                    *)
(***************************************************************************)
MaxLineLen == 230   \* longest line handed to _fold_line on its own
MaxTextLen == 4     \* longest string handed to _escape_text on its own
MaxEvents == 2      \* longest record sequence handed to build_icalendar
MaxYears == 2       \* longest list of years handed to generate_calendar
MaxFields == 2      \* most optional keys of a record handed to _normalise_event

(***************************************************************************)
(* Characters.                                                             *)
(***************************************************************************)
\* The printable ASCII characters in code point order, starting at 32.  The
\* grave accent (96) cannot be written in a string and is held by a name.
Ascii ==
    <<" ", "!", "\"", "#", "$", "%", "&", "'", "(", ")", "*", "+",
      ",", "-", ".", "/", "0", "1", "2", "3", "4", "5", "6", "7",
      "8", "9", ":", ";", "<", "=", ">", "?", "@", "A", "B", "C",
      "D", "E", "F", "G", "H", "I", "J", "K", "L", "M", "N", "O",
      "P", "Q", "R", "S", "T", "U", "V", "W", "X", "Y", "Z", "[",
      "\\", "]", "^", "_", "GRAVE", "a", "b", "c", "d", "e", "f", "g",
      "h", "i", "j", "k", "l", "m", "n", "o", "p", "q", "r", "s",
      "t", "u", "v", "w", "x", "y", "z", "{", "|", "}", "~">>

\* the code point of each printable ASCII character
AsciiCode ==
    [c \in {Ascii[i] : i \in 1..Len(Ascii)} |->
        31 + (CHOOSE i \in 1..Len(Ascii) : Ascii[i] = c)]

\* ord(c)
Ord(c) ==
    IF c = "\n" THEN 10
    ELSE IF c = "\r" THEN 13
    ELSE AsciiCode[c]

\* s[:n]
Take(s, n) == SubSeq(s, 1, IF n < Len(s) THEN n ELSE Len(s))

\* s[n:]
Drop(s, n) == SubSeq(s, n + 1, Len(s))

\* [f(x) for x in xs]: the list built by a comprehension, its elements
\* computed once
ListOf(f) == SubSeq(f, 1, Len(f))

\* parts[lo-1] + ... + parts[hi-1], by halving
RECURSIVE ConcatRange(_, _, _)
ConcatRange(parts, lo, hi) ==
    IF lo > hi THEN <<>>
    ELSE IF lo = hi THEN parts[lo]
    ELSE LET mid == (lo + hi) \div 2
         IN  ConcatRange(parts, lo, mid) \o ConcatRange(parts, mid + 1, hi)

\* "".join(parts), also the concatenation of a list of lists
Concat(parts) == ConcatRange(parts, 1, Len(parts))

\* str.replace(old, new) for a one-character `old`
Replace(s, old, new) ==
    IF \A i \in 1..Len(s) : s[i] # old THEN s
    ELSE Concat([i \in 1..Len(s) |-> IF s[i] = old THEN new ELSE <<s[i]>>])

(***************************************************************************)
(* calendar.py: module constants                                           *)
(***************************************************************************)
_MAX_LINE_LENGTH == 75

(***************************************************************************)
(* calendar.py: _escape_text                                               *)
(***************************************************************************)
\* The same chain with the backslash replaced last instead of first.
_escape_text_backslash_last(v) ==
    Replace(Replace(Replace(Replace(Replace(v,
        "\n", <<"\\", "n">>),
        "\r", <<>>),
        ",", <<"\\", ",">>),
        ";", <<"\\", ";">>),
        "\\", <<"\\", "\\">>)

_escape_text(v) ==
    Replace(Replace(Replace(Replace(Replace(v,
        "\\", <<"\\", "\\">>),
        "\n", <<"\\", "n">>),
        "\r", <<>>),
        ",", <<"\\", ",">>),
        ";", <<"\\", ";">>)

(***************************************************************************)
(* calendar.py: _fold_line                                                 *)
(***************************************************************************)
\* The while loop of _fold_line and the final append.
RECURSIVE FoldRemainder(_)
FoldRemainder(remainder) ==
    IF Len(remainder) > _MAX_LINE_LENGTH - 1
    THEN <<(<<" ">> \o Take(remainder, _MAX_LINE_LENGTH - 1))>>
             \o FoldRemainder(Drop(remainder, _MAX_LINE_LENGTH - 1))
    ELSE <<(<<" ">> \o remainder)>>

\* The loop with `>=` in place of `>`.
RECURSIVE FoldRemainderGe(_)
FoldRemainderGe(remainder) ==
    IF Len(remainder) >= _MAX_LINE_LENGTH - 1
    THEN <<(<<" ">> \o Take(remainder, _MAX_LINE_LENGTH - 1))>>
             \o FoldRemainderGe(Drop(remainder, _MAX_LINE_LENGTH - 1))
    ELSE <<(<<" ">> \o remainder)>>

_fold_line_loop_ge(l) ==
    IF Len(l) <= _MAX_LINE_LENGTH THEN <<l>>
    ELSE <<Take(l, _MAX_LINE_LENGTH)>> \o FoldRemainderGe(Drop(l, _MAX_LINE_LENGTH))

_fold_line(l) ==
    IF Len(l) <= _MAX_LINE_LENGTH THEN <<l>>
    ELSE <<Take(l, _MAX_LINE_LENGTH)>> \o FoldRemainder(Drop(l, _MAX_LINE_LENGTH))

\* f"{key}:{value}" folded
_format_ics_line(key, v) == _fold_line(key \o <<":">> \o v)

(***************************************************************************)
(* Python values found in a raw event record.                              *)
(***************************************************************************)
None == [t |-> "none"]
Str(s) == [t |-> "str", s |-> s]
Num(n) == [t |-> "int", n |-> n]
Bool(b) == [t |-> "bool", b |-> b]
List(items) == [t |-> "list", items |-> items]
\* a mapping, as the sequence of its (key, value) items in insertion order
Map(pairs) == [t |-> "map", pairs |-> pairs]
Date(y, m, d) == [t |-> "date", y |-> y, m |-> m, d |-> d]
Datetime(y, m, d, hh, mi, ss) ==
    [t |-> "datetime", y |-> y, m |-> m, d |-> d, hh |-> hh, mi |-> mi, ss |-> ss]

\* a raised exception / a returned value
Raise(exc) == [ok |-> FALSE, err |-> exc]
Return(v) == [ok |-> TRUE, val |-> v]

\* key in event  (an event is the sequence of its (key, value) items)
Has(event, key) == \E i \in 1..Len(event) : event[i][1] = key

\* event.get(key)
Get(event, key) ==
    IF Has(event, key)
    THEN event[CHOOSE i \in 1..Len(event) : event[i][1] = key][2]
    ELSE None

\* bool(v)
Truthy(v) ==
    CASE v.t = "none" -> FALSE
      [] v.t = "str" -> Len(v.s) > 0
      [] v.t = "int" -> v.n # 0
      [] v.t = "bool" -> v.b
      [] v.t = "list" -> Len(v.items) > 0
      [] v.t = "map" -> Len(v.pairs) > 0
      [] v.t \in {"date", "datetime"} -> TRUE

\* a or b
Or(a, b) == IF Truthy(a) THEN a ELSE b

(***************************************************************************)
(* Decimal text.                                                           *)
(***************************************************************************)
Digit(n) == Ascii[17 + n]
IsDigit(c) == c \in {Digit(n) : n \in 0..9}
DigitVal(c) == CHOOSE n \in 0..9 : Digit(n) = c

\* n as decimal text of at least `width` digits (n >= 0): "%0<width>d"
RECURSIVE Pad(_, _)
Pad(n, width) ==
    IF n < 10 /\ width <= 1 THEN <<Digit(n)>>
    ELSE Pad(n \div 10, width - 1) \o <<Digit(n % 10)>>

\* str(n) for an int
IntToStr(n) == IF n < 0 THEN <<"-">> \o Pad(0 - n, 1) ELSE Pad(n, 1)

(***************************************************************************)
(* datetime: the operations of dt.date / dt.datetime the code uses.        *)
(***************************************************************************)
IsLeap(y) == (y % 4 = 0 /\ y % 100 # 0) \/ y % 400 = 0

DaysInMonth(y, m) ==
    IF m = 2 THEN (IF IsLeap(y) THEN 29 ELSE 28)
    ELSE IF m \in {4, 6, 9, 11} THEN 30 ELSE 31

\* value.strftime("%Y%m%d"), for a date or a datetime
StrftimeYmd(dv) == Pad(dv.y, 4) \o Pad(dv.m, 2) \o Pad(dv.d, 2)

\* value.strftime("%Y%m%dT%H%M%SZ")
StrftimeStamp(dv) ==
    StrftimeYmd(dv) \o <<"T">> \o Pad(dv.hh, 2) \o Pad(dv.mi, 2) \o Pad(dv.ss, 2) \o <<"Z">>

\* value.isoformat(): a datetime keeps its time of day
Isoformat(dv) ==
    LET day == Pad(dv.y, 4) \o <<"-">> \o Pad(dv.m, 2) \o <<"-">> \o Pad(dv.d, 2)
    IN  IF dv.t = "datetime"
        THEN day \o <<"T">> \o Pad(dv.hh, 2) \o <<":">> \o Pad(dv.mi, 2)
                 \o <<":">> \o Pad(dv.ss, 2)
        ELSE day

\* value + dt.timedelta(days=1)
PlusOneDay(dv) ==
    IF dv.d < DaysInMonth(dv.y, dv.m) THEN [dv EXCEPT !.d = dv.d + 1]
    ELSE IF dv.m < 12 THEN [dv EXCEPT !.m = dv.m + 1, !.d = 1]
    ELSE [dv EXCEPT !.y = dv.y + 1, !.m = 1, !.d = 1]

\* dt.datetime.utcfromtimestamp(n).date(): the civil date of the day that
\* holds second n of the Unix epoch
DateFromTimestamp(n) ==
    LET z == (n \div 86400) + 719468
        era == z \div 146097
        doe == z - era * 146097
        yoe == (doe - doe \div 1460 + doe \div 36524 - doe \div 146096) \div 365
        doy == doe - (365 * yoe + yoe \div 4 - yoe \div 100)
        mp == (5 * doy + 2) \div 153
        d == doy - (153 * mp + 2) \div 5 + 1
        m == IF mp < 10 THEN mp + 3 ELSE mp - 9
        y == yoe + era * 400 + (IF m <= 2 THEN 1 ELSE 0)
    IN  Date(y, m, d)

\* dt.date.fromisoformat(s), for the extended calendar form YYYY-MM-DD
DateFromIsoformat(s) ==
    IF /\ Len(s) = 10
       /\ s[5] = "-" /\ s[8] = "-"
       /\ \A i \in {1, 2, 3, 4, 6, 7, 9, 10} : IsDigit(s[i])
    THEN LET y == 1000 * DigitVal(s[1]) + 100 * DigitVal(s[2])
                    + 10 * DigitVal(s[3]) + DigitVal(s[4])
             m == 10 * DigitVal(s[6]) + DigitVal(s[7])
             d == 10 * DigitVal(s[9]) + DigitVal(s[10])
         IN  IF y >= 1 /\ m \in 1..12 /\ d >= 1 /\ d <= DaysInMonth(y, m)
             THEN Return(Date(y, m, d))
             ELSE Raise("ValueError")
    ELSE Raise("ValueError")

\* dt.datetime.fromisoformat(s).date(), for the extended forms
\* YYYY-MM-DD and YYYY-MM-DD<sep>HH:MM:SS
DatetimeFromIsoformatDate(s) ==
    LET day == DateFromIsoformat(Take(s, 10))
        clockOk ==
            /\ Len(s) = 19
            /\ s[14] = ":" /\ s[17] = ":"
            /\ \A i \in {12, 13, 15, 16, 18, 19} : IsDigit(s[i])
            /\ 10 * DigitVal(s[12]) + DigitVal(s[13]) < 24
            /\ 10 * DigitVal(s[15]) + DigitVal(s[16]) < 60
            /\ 10 * DigitVal(s[18]) + DigitVal(s[19]) < 60
    IN  IF day.ok /\ (Len(s) = 10 \/ clockOk) THEN day ELSE Raise("ValueError")

(***************************************************************************)
(* calendar.py: _parse_date                                                *)
(***************************************************************************)
_parse_date(v) ==
    CASE v.t \in {"date", "datetime"} ->
            \* isinstance(value, dt.date) also holds for a dt.datetime, so
            \* the value is returned as it is and the .date() branch is dead
            Return(v)
      [] v.t = "int" -> Return(DateFromTimestamp(v.n))
      [] v.t = "bool" -> Return(DateFromTimestamp(IF v.b THEN 1 ELSE 0))
      [] v.t = "str" ->
            LET first == DateFromIsoformat(Take(v.s, 10))
            IN  IF first.ok THEN first ELSE DatetimeFromIsoformatDate(v.s)
      [] v.t \in {"none", "list", "map"} -> Raise("TypeError")

(***************************************************************************)
(* calendar.py: _slugify                                                   *)
(***************************************************************************)
\* c.lower() for one ASCII character
Lower(c) == IF Ord(c) \in 65..90 THEN Ascii[Ord(c) + 32 - 31] ELSE c

\* c matches [a-z0-9]
IsSlugChar(c) == Ord(c) \in 97..122 \/ Ord(c) \in 48..57

\* s.strip("-")
StripHyphens(s) ==
    LET keep == {i \in 1..Len(s) : s[i] # "-"}
    IN  IF keep = {} THEN <<>>
        ELSE SubSeq(s, CHOOSE i \in keep : \A j \in keep : i <= j,
                       CHOOSE i \in keep : \A j \in keep : i >= j)

_slugify(v) ==
    IF Len(v) = 0 THEN <<"e", "v", "e", "n", "t">>
    ELSE LET lower == ListOf([i \in 1..Len(v) |-> Lower(v[i])])
             \* _SLUG_RE.sub("-", value): each maximal run of characters
             \* outside [a-z0-9] becomes one hyphen
             sub(i) == IF IsSlugChar(lower[i]) THEN <<lower[i]>>
                       ELSE IF i > 1 /\ ~IsSlugChar(lower[i - 1]) THEN <<>>
                       ELSE <<"-">>
             stripped == StripHyphens(Concat([i \in 1..Len(v) |-> sub(i)]))
         IN  IF Len(stripped) = 0 THEN <<"e", "v", "e", "n", "t">> ELSE stripped

(***************************************************************************)
(* calendar.py: _stringify                                                 *)
(***************************************************************************)
\* sep.join(parts)
RECURSIVE Join(_, _)
Join(parts, sep) ==
    IF Len(parts) = 0 THEN <<>>
    ELSE IF Len(parts) = 1 THEN parts[1]
    ELSE LET mid == Len(parts) \div 2
         IN  Join(SubSeq(parts, 1, mid), sep) \o sep
                 \o Join(SubSeq(parts, mid + 1, Len(parts)), sep)

\* json.dumps raises TypeError on a date or datetime: the value, or a
\* value nested in it, reaches the final branch of _stringify
RECURSIVE Undumpable(_)
Undumpable(v) ==
    CASE v.t \in {"date", "datetime"} -> TRUE
      [] v.t = "list" ->
            \E i \in 1..Len(v.items) :
                v.items[i].t # "none" /\ Undumpable(v.items[i])
      [] v.t = "map" ->
            \E i \in 1..Len(v.pairs) :
                v.pairs[i][2].t # "none" /\ Undumpable(v.pairs[i][2])
      [] v.t \in {"none", "str", "int", "bool"} -> FALSE

RECURSIVE _stringify(_)
_stringify(v) ==
    CASE v.t = "none" -> <<>>
      [] v.t = "str" -> v.s
      [] v.t = "bool" -> IF v.b THEN <<"Y", "e", "s">> ELSE <<"N", "o">>
      [] v.t = "int" -> IntToStr(v.n)
      [] v.t = "list" ->
            LET elems == SelectSeq(v.items, LAMBDA e : e.t # "none")
            IN  Join([i \in 1..Len(elems) |-> _stringify(elems[i])], <<",", " ">>)
      [] v.t = "map" ->
            LET items == SelectSeq(v.pairs, LAMBDA p : p[2].t # "none")
            IN  Join([i \in 1..Len(items) |->
                         items[i][1] \o <<":", " ">> \o _stringify(items[i][2])], <<";", " ">>)

\* str(v), for the values the model hands to str() and to f-strings
PyStr(v) ==
    CASE v.t = "str" -> v.s
      [] v.t = "int" -> IntToStr(v.n)
      [] v.t = "bool" -> IF v.b THEN <<"T", "r", "u", "e">> ELSE <<"F", "a", "l", "s", "e">>
      [] v.t = "none" -> <<"N", "o", "n", "e">>
      [] v.t = "date" -> Isoformat(v)

(***************************************************************************)
(* uuid.uuid5(uuid.NAMESPACE_URL, seed)                                    *)
(*                                                                         *)
(* The SHA-1 of the library is replaced by a small polynomial hash of the  *)
(* seed, printed in the 8-4-4-4-12 layout: like the library's, the result  *)
(* is a function of the seed alone, has 36 characters and holds only hex   *)
(* digits and hyphens.                                                     *)
(***************************************************************************)
RECURSIVE SeedHash(_, _)
SeedHash(seed, i) ==
    IF i = 0 THEN 7
    ELSE (SeedHash(seed, i - 1) * 31 + Ord(seed[i])) % 16777216

HexDigit(n) == IF n < 10 THEN Digit(n) ELSE Ascii[Ord("a") - 31 + (n - 10)]

RECURSIVE Hex(_, _)
Hex(n, width) ==
    IF width = 0 THEN <<>> ELSE Hex(n \div 16, width - 1) \o <<HexDigit(n % 16)>>

Uuid5(seed) ==
    Hex(SeedHash(seed, Len(seed)), 8) \o <<"-", "0", "0", "0", "0", "-", "5", "0", "0", "0", "-", "8", "0", "0", "0", "-">> \o Hex(Len(seed), 12)

(***************************************************************************)
(* calendar.py: CalendarConfig                                             *)
(***************************************************************************)
\* The fields the dataclass declares.
CalendarConfigFields == {"name", "prodid", "domain", "timezone"}

\* The declared defaults.
CalendarConfigDefaults ==
    [name |-> <<"G", "e", "n", "e", "r", "a", "l", " ", "R", "o", "m", "a", "n", " ", "C", "a", "l", "e", "n", "d", "a", "r">>,
     prodid |-> <<"-", "/", "/", "C", "a", "t", "h", "o", "l", "i", "c", " ", "C", "a", "l", "e", "n", "d", "a", "r", "/", "/", "G", "e", "n", "e", "r", "a", "l", " ", "R", "o", "m", "a", "n", " ", "C", "a", "l", "e", "n", "d", "a", "r", "/", "/", "E", "N">>,
     domain |-> <<"c", "a", "t", "h", "o", "l", "i", "c", ".", "c", "a", "l", "e", "n", "d", "a", "r">>,
     timezone |-> <<"U", "T", "C">>]

(***************************************************************************)
(* calendar.py: _normalise_event                                           *)
(***************************************************************************)
\* The uid of a record: lines 136-144.
EventUid(event, config, date_value, summary) ==
    LET uid == Or(Get(event, "uid"), Get(event, "identifier"))
    IN  IF Truthy(uid)
        THEN LET text == PyStr(uid)
             IN  IF \E i \in 1..Len(text) : text[i] = "@"
                 THEN Return(text)
                 ELSE Return(text \o <<"@">> \o config.domain)
        ELSE LET explicit == Get(event, "slug")
             IN  IF ~Truthy(explicit) /\ summary.t # "str"
                 THEN Raise("AttributeError")     \* value.lower() of a non-str
                 ELSE LET slug == IF Truthy(explicit) THEN PyStr(explicit)
                                  ELSE _slugify(summary.s)
                          uid_seed == Isoformat(date_value) \o <<"-">> \o slug
                      IN  Return(Uuid5(uid_seed) \o <<"@">> \o config.domain)

\* The (label, value) pairs of the description: lines 147-159.
DescriptionPairs(event) ==
    LET notes == Or(Get(event, "note"), Get(event, "notes"))
    IN  << <<<<"R", "a", "n", "k">>, Or(Get(event, "rankName"), Get(event, "rank"))>>,
           <<<<"L", "i", "t", "u", "r", "g", "i", "c", "a", "l", " ", "c", "o", "l", "o", "r">>,
             Or(Get(event, "liturgicalColor"), Get(event, "liturgicalColors"))>>,
           <<<<"S", "e", "a", "s", "o", "n">>, Or(Get(event, "season"), Get(event, "liturgicalSeason"))>>,
           <<<<"T", "y", "p", "e">>, Or(Get(event, "type"), Get(event, "liturgicalType"))>>,
           <<<<"H", "o", "l", "y", " ", "d", "a", "y", " ", "o", "f", " ", "o", "b", "l", "i", "g", "a", "t", "i", "o", "n">>, Get(event, "isHolyDayOfObligation")>>,
           <<<<"O", "p", "t", "i", "o", "n", "a", "l", " ", "m", "e", "m", "o", "r", "i", "a", "l">>, Get(event, "isOptional")>>,
           <<<<"W", "e", "e", "k">>, Or(Get(event, "week"), Get(event, "liturgicalWeek"))>>,
           <<<<"C", "y", "c", "l", "e">>, Or(Get(event, "cycle"), Get(event, "liturgicalCycle"))>> >>
        \o (IF Truthy(notes) THEN << <<<<"N", "o", "t", "e", "s">>, notes>> >> ELSE <<>>)

\* The lines of the description: lines 146-174.
DescriptionLines(event) ==
    LET commemorations ==
            Or(Get(event, "commemorations"), Get(event, "secondaryCelebrations"))
        metadata == Or(Get(event, "metadata"), Get(event, "meta"))
        pairs == DescriptionPairs(event)
        labelled(p) ==
            IF p[2].t = "none" THEN <<>>
            ELSE IF Len(_stringify(p[2])) > 0
                 THEN <<(p[1] \o <<":", " ">> \o _stringify(p[2]))>>
                 ELSE <<>>
    IN  (IF Truthy(commemorations)
         THEN <<(<<"C", "o", "m", "m", "e", "m", "o", "r", "a", "t", "i", "o", "n", "s", ":", " ">> \o _stringify(commemorations))>> ELSE <<>>)
        \o (IF Truthy(metadata) THEN <<_stringify(metadata)>> ELSE <<>>)
        \o Concat([i \in 1..Len(pairs) |-> labelled(pairs[i])])

\* The values _normalise_event hands to _stringify.
StringifiedValues(event) ==
    LET commemorations ==
            Or(Get(event, "commemorations"), Get(event, "secondaryCelebrations"))
        metadata == Or(Get(event, "metadata"), Get(event, "meta"))
        pairs == DescriptionPairs(event)
    IN  (IF Truthy(commemorations) THEN <<commemorations>> ELSE <<>>)
        \o (IF Truthy(metadata) THEN <<metadata>> ELSE <<>>)
        \o [i \in 1..Len(pairs) |-> pairs[i][2]]

_normalise_event(event, config) ==
    LET parsed ==
            IF Has(event, "date") THEN _parse_date(Get(event, "date"))
            ELSE IF Has(event, "start") THEN _parse_date(Get(event, "start"))
            ELSE Raise("KeyError")
        summary ==
            Or(Get(event, "name"), Or(Get(event, "title"),
            Or(Get(event, "celebration"), Or(Get(event, "id"),
            Str(<<"U", "n", "n", "a", "m", "e", "d", " ", "C", "e", "l", "e", "b", "r", "a", "t", "i", "o", "n">>)))))
        category ==
            Or(Get(event, "rankName"), Or(Get(event, "rank"),
            Or(Get(event, "type"), Or(Get(event, "classification"),
            Str(<<"C", "e", "l", "e", "b", "r", "a", "t", "i", "o", "n">>)))))
        uid == EventUid(event, config, parsed.val, summary)
        values == StringifiedValues(event)
    IN  IF ~parsed.ok THEN parsed
        ELSE IF ~uid.ok THEN uid
        ELSE IF \E i \in 1..Len(values) : Undumpable(values[i])
             THEN Raise("TypeError")              \* json.dumps of the value
        ELSE IF category.t \notin {"str", "list", "map"}
             THEN Raise("TypeError")              \* list() of a non-iterable
        ELSE Return([uid |-> uid.val,
                     summary |-> summary,
                     description |-> Join(DescriptionLines(event), <<"\n">>),
                     categories |->
                         IF category.t = "str" THEN <<category>>
                         ELSE IF category.t = "list" THEN category.items
                         ELSE [i \in 1..Len(category.pairs) |->
                                  Str(category.pairs[i][1])],
                     date |-> parsed.val])

(***************************************************************************)
(* calendar.py: build_icalendar                                            *)
(***************************************************************************)
\* a < b for two sequences of integers: the first difference decides, a
\* proper prefix comes first
LexLess(a, b) ==
    \/ \E i \in 1..Len(a) :
          /\ i <= Len(b)
          /\ \A j \in 1..(i - 1) : a[j] = b[j]
          /\ a[i] < b[i]
    \/ Len(a) < Len(b) /\ \A j \in 1..Len(a) : a[j] = b[j]

\* a < b for two str values: by code point
StrLess(a, b) ==
    LexLess([i \in 1..Len(a) |-> Ord(a[i])], [i \in 1..Len(b) |-> Ord(b[i])])

\* the fields a dt.date / dt.datetime is ordered by
DateFields(dv) ==
    IF dv.t = "datetime" THEN <<dv.y, dv.m, dv.d, dv.hh, dv.mi, dv.ss>>
    ELSE <<dv.y, dv.m, dv.d>>

\* a < b for two summaries of the same type
SummaryLess(a, b) ==
    CASE a.t = "str" -> StrLess(a.s, b.s)
      [] a.t = "int" -> a.n < b.n

\* (a["date"], a["summary"]) < (b["date"], b["summary"]) raises TypeError:
\* a datetime is never equal to a date and cannot be ordered against one,
\* and summaries of different types cannot be ordered
KeyCompareRaises(a, b) ==
    IF a.date.t # b.date.t THEN TRUE
    ELSE IF a.date # b.date THEN FALSE
    ELSE a.summary.t # b.summary.t

\* the sort key compared on the date alone
KeyLessDateOnly(a, b) == LexLess(DateFields(a.date), DateFields(b.date))

\* (a["date"], a["summary"]) < (b["date"], b["summary"])
KeyLess(a, b) ==
    IF a.date = b.date
    THEN SummaryLess(a.summary, b.summary)
    ELSE LexLess(DateFields(a.date), DateFields(b.date))

\* list.sort(key=...): stable, so each item goes behind the items that are
\* not greater than it
RECURSIVE StableSort(_, _)
StableSort(sorted, rest) ==
    IF Len(rest) = 0 THEN sorted
    ELSE LET x == rest[1]
             after == {i \in 1..Len(sorted) : KeyLess(x, sorted[i])}
             k == IF after = {} THEN Len(sorted) + 1
                  ELSE CHOOSE i \in after : \A j \in after : i <= j
         IN  StableSort(SubSeq(sorted, 1, k - 1) \o <<x>>
                            \o SubSeq(sorted, k, Len(sorted)),
                        Tail(rest))

\* cfg = config or CalendarConfig()
ConfigOrDefault(config) ==
    IF "t" \in DOMAIN config THEN CalendarConfigDefaults ELSE config

\* The fixed lines that open the document: lines 200-207.
HeaderLines(c) ==
    <<<<"B", "E", "G", "I", "N", ":", "V", "C", "A", "L", "E", "N", "D", "A", "R">>,
      <<"P", "R", "O", "D", "I", "D", ":">> \o c.prodid,
      <<"V", "E", "R", "S", "I", "O", "N", ":", "2", ".", "0">>,
      <<"C", "A", "L", "S", "C", "A", "L", "E", ":", "G", "R", "E", "G", "O", "R", "I", "A", "N">>,
      <<"X", "-", "W", "R", "-", "C", "A", "L", "N", "A", "M", "E", ":">> \o _escape_text(c.name),
      <<"X", "-", "W", "R", "-", "T", "I", "M", "E", "Z", "O", "N", "E", ":">> \o _escape_text(c.timezone)>>

\* The lines of one event: the body of the loop, lines 210-224.
EventLines(normalised, stamp) ==
    LET start == StrftimeYmd(normalised.date)
        end == StrftimeYmd(PlusOneDay(normalised.date))
        categoryLine(category) ==
            _format_ics_line(<<"C", "A", "T", "E", "G", "O", "R", "I", "E", "S">>, _escape_text(PyStr(category)))
    IN  <<<<"B", "E", "G", "I", "N", ":", "V", "E", "V", "E", "N", "T">>>>
        \o _format_ics_line(<<"U", "I", "D">>, normalised.uid)
        \o _format_ics_line(<<"D", "T", "S", "T", "A", "M", "P">>, stamp)
        \o _format_ics_line(<<"D", "T", "S", "T", "A", "R", "T", ";", "V", "A", "L", "U", "E", "=", "D", "A", "T", "E">>, start)
        \o _format_ics_line(<<"D", "T", "E", "N", "D", ";", "V", "A", "L", "U", "E", "=", "D", "A", "T", "E">>, end)
        \o _format_ics_line(<<"S", "U", "M", "M", "A", "R", "Y">>, _escape_text(normalised.summary.s))
        \o (IF Len(normalised.description) > 0
            THEN _format_ics_line(<<"D", "E", "S", "C", "R", "I", "P", "T", "I", "O", "N">>, _escape_text(normalised.description))
            ELSE <<>>)
        \o Concat([i \in 1..Len(normalised.categories) |->
                      categoryLine(normalised.categories[i])])
        \o <<<<"E", "N", "D", ":", "V", "E", "V", "E", "N", "T">>>>

\* The function from the sort on, given the normalised events.
Serialise(items, c, clock) ==
    IF \E i, j \in 1..Len(items) : i # j /\ KeyCompareRaises(items[i], items[j])
    THEN Raise("TypeError")
    ELSE IF \E i \in 1..Len(items) : items[i].summary.t # "str"
         THEN Raise("AttributeError")             \* value.replace of a non-str
    ELSE LET normalised_events == StableSort(<<>>, items)
             stamp == StrftimeStamp(clock)
             block(item) == EventLines(item, stamp)
             lines == HeaderLines(c)
                      \o Concat([i \in 1..Len(normalised_events) |->
                                    block(normalised_events[i])])
                      \o <<<<"E", "N", "D", ":", "V", "C", "A", "L", "E", "N", "D", "A", "R">>>>
         IN  Return(Join(lines, <<"\r", "\n">>) \o <<"\r", "\n">>)

\* The function with records that fail to normalise left out.
build_icalendar_skip_invalid(evs, config, clock) ==
    LET c == ConfigOrDefault(config)
        outcomes == ListOf([i \in 1..Len(evs) |-> _normalise_event(evs[i], c)])
        valid == SelectSeq(outcomes, LAMBDA o : o.ok)
    IN  Serialise(ListOf([i \in 1..Len(valid) |-> valid[i].val]), c, clock)

build_icalendar(evs, config, clock) ==
    LET c == ConfigOrDefault(config)
        outcomes == ListOf([i \in 1..Len(evs) |-> _normalise_event(evs[i], c)])
        failed == {i \in 1..Len(evs) : ~outcomes[i].ok}
    IN  IF failed # {}
        THEN outcomes[CHOOSE i \in failed : \A j \in failed : i <= j]
        ELSE Serialise(ListOf([i \in 1..Len(evs) |-> outcomes[i].val]), c, clock)

(***************************************************************************)
(* cli.py: _normalise_optional                                             *)
(***************************************************************************)
\* characters str.strip() removes
Whitespace == {" ", "\t", "\n", "\r", "\f"}

\* s.strip()
Strip(s) ==
    LET keep == {i \in 1..Len(s) : s[i] \notin Whitespace}
    IN  IF keep = {} THEN <<>>
        ELSE SubSeq(s, CHOOSE i \in keep : \A j \in keep : i <= j,
                       CHOOSE i \in keep : \A j \in keep : i >= j)

_normalise_optional(v) ==
    IF v.t = "none" THEN None
    ELSE LET stripped == Strip(v.s)
         IN  IF Len(stripped) = 0 THEN None
             ELSE IF [i \in 1..Len(stripped) |-> Lower(stripped[i])] = <<"n", "o", "n", "e">> THEN None
             ELSE Str(stripped)

(***************************************************************************)
(* calendar.py: the __init__ the dataclass generates for CalendarConfig     *)
(***************************************************************************)
CalendarConfig(kwargs) ==
    IF DOMAIN kwargs \subseteq CalendarConfigFields
    THEN Return([f \in CalendarConfigFields |->
                    IF f \in DOMAIN kwargs THEN kwargs[f] ELSE CalendarConfigDefaults[f]])
    ELSE Raise("TypeError")       \* unexpected keyword argument

(***************************************************************************)
(* romcal_adapter.py: fetch_calendar, the external source                  *)
(***************************************************************************)
\* The record the fake source of the tests returns for a year.
MaryOf(year) ==
    << <<"date", Str(IntToStr(year) \o <<"-", "0", "1", "-", "0", "1">>)>>,
       <<"name", Str(<<"M", "a", "r", "y", " ">> \o IntToStr(year))>>,
       <<"rankName", Str(<<"S", "O", "L", "E", "M", "N", "I", "T", "Y">>)>>,
       <<"liturgicalColor", Str(<<"w", "h", "i", "t", "e">>)>> >>

\* What a call for one year may come back with: an empty payload, a list of
\* records, or the failure of the bridge script.
FetchOutcomes(year) ==
    {Return(<<>>), Return(<<MaryOf(year)>>), Raise("RomcalRuntimeError")}

(***************************************************************************)
(* cli.py: parse_args, generate_calendar, main                             *)
(***************************************************************************)
\* The defaults of the options of parse_args.
ArgDefaults ==
    [locale |-> <<"e", "n">>,
     calendar |-> <<"g", "e", "n", "e", "r", "a", "l">>,
     include_optional |-> TRUE,
     name |-> <<"G", "e", "n", "e", "r", "a", "l", " ", "R", "o", "m", "a", "n", " ", "C", "a", "l", "e", "n", "d", "a", "r">>,
     prodid |-> <<"-", "/", "/", "C", "a", "t", "h", "o", "l", "i", "c", " ", "C", "a", "l", "e", "n", "d", "a", "r", "/", "/", "G", "e", "n", "e", "r", "a", "l", " ", "R", "o", "m", "a", "n", " ", "C", "a", "l", "e", "n", "d", "a", "r", "/", "/", "E", "N">>,
     domain |-> <<"c", "a", "t", "h", "o", "l", "i", "c", ".", "c", "a", "l", "e", "n", "d", "a", "r">>,
     timezone |-> <<"U", "T", "C">>,
     method |-> Str(<<"P", "U", "B", "L", "I", "S", "H">>),
     refresh_interval |-> Str(<<"P", "1", "D">>),
     published_ttl |-> Str(<<"P", "1", "D">>),
     romcal_script |-> None]

\* parse_args: the years, the output path and the options given on the
\* command line (a function from option names to texts) over the defaults
parse_args(years, output, given) ==
    [k \in DOMAIN ArgDefaults \cup {"years", "output"} |->
        IF k = "years" THEN years
        ELSE IF k = "output" THEN output
        ELSE IF k \in DOMAIN given
             THEN (IF k \in {"method", "refresh_interval", "published_ttl"}
                   THEN Str(given[k]) ELSE given[k])
             ELSE ArgDefaults[k]]

\* generate_calendar: `answers` holds what fetch_calendar returns for each
\* year, `clock` the time of the call.  The result gives the outcome of the
\* call, the years fetch_calendar was called with, and the file written.
\* lines 167-168: the text is written to args.output, which is returned
write_text(a, ics) ==
    IF ~ics.ok
    THEN [outcome |-> ics, calls |-> a.years, file |-> None]
    ELSE [outcome |-> Return(a.output), calls |-> a.years, file |-> Str(ics.val)]

\* lines 156-166: the events fetched so far go to build_icalendar once the
\* configuration object exists
build_with(a, fetchedEvents, clock, calendar_config) ==
    IF ~calendar_config.ok
    THEN [outcome |-> calendar_config, calls |-> a.years, file |-> None]
    ELSE write_text(a, build_icalendar(fetchedEvents, calendar_config.val, clock))

generate_calendar(a, answers, clock) ==
    LET failures == {k \in 1..Len(a.years) : ~answers[k].ok}
        firstFailure == CHOOSE k \in failures : \A j \in failures : k <= j
    IN  IF failures # {}
        THEN [outcome |-> answers[firstFailure],
              calls |-> SubSeq(a.years, 1, firstFailure), file |-> None]
        ELSE build_with(a, Concat([k \in 1..Len(a.years) |-> answers[k].val]), clock,
                        CalendarConfig([name |-> a.name,
                                        prodid |-> a.prodid,
                                        domain |-> a.domain,
                                        timezone |-> a.timezone,
                                        method |-> _normalise_optional(a.method),
                                        refresh_interval |-> _normalise_optional(a.refresh_interval),
                                        published_ttl |-> _normalise_optional(a.published_ttl)]))

(***************************************************************************)
(* Inputs.                                                                 *)
(***************************************************************************)
\* Lines for _fold_line: every length up to MaxLineLen, in two patterns
\* whose characters change from one position to the next.
FoldAlphabet == <<"a", "b", " ", "c", ":">>
MkLine(n, stride) ==
    [i \in 1..n |-> FoldAlphabet[((i * stride) % Len(FoldAlphabet)) + 1]]
FoldInputs == {MkLine(n, stride) : n \in 0..MaxLineLen, stride \in {1, 2}}

\* Strings for _escape_text: every string up to MaxTextLen over the five
\* characters the function touches and two it does not.
EscapeAlphabet == {"\\", "\n", "\r", ",", ";", "a", "n"}
EscapeInputs == UNION {[1..k -> EscapeAlphabet] : k \in 0..MaxTextLen}

\* a str of n characters
Repeat(c, n) == [i \in 1..n |-> c]

\* Raw records, as the external source or a caller may supply them.
EventPool ==
    << \* scenario A of the tests
       << <<"date", Str(<<"2", "0", "2", "5", "-", "0", "1", "-", "0", "1">>)>>,
          <<"name", Str(<<"M", "a", "r", "y", ",", " ", "M", "o", "t", "h", "e", "r", " ", "o", "f", " ", "G", "o", "d">>)>>,
          <<"rankName", Str(<<"S", "O", "L", "E", "M", "N", "I", "T", "Y">>)>>,
          <<"liturgicalColor", Str(<<"w", "h", "i", "t", "e">>)>>,
          <<"isHolyDayOfObligation", Bool(TRUE)>> >>,
       \* the same date and name, another rank
       << <<"date", Str(<<"2", "0", "2", "5", "-", "0", "1", "-", "0", "1">>)>>,
          <<"name", Str(<<"M", "a", "r", "y", ",", " ", "M", "o", "t", "h", "e", "r", " ", "o", "f", " ", "G", "o", "d">>)>>,
          <<"rankName", Str(<<"F", "E", "A", "S", "T">>)>> >>,
       \* a dt.date, a list and a mapping
       << <<"date", Date(2025, 2, 2)>>,
          <<"name", Str(<<"P", "r", "e", "s", "e", "n", "t", "a", "t", "i", "o", "n", " ", "o", "f", " ", "t", "h", "e", " ", "L", "o", "r", "d">>)>>,
          <<"rankName", List(<<Str(<<"F", "E", "A", "S", "T">>), Num(2)>>)>>,
          <<"liturgicalColors", List(<<Str(<<"w", "h", "i", "t", "e">>)>>)>>,
          <<"metadata", Map(<< <<<<"s", "o", "u", "r", "c", "e">>, Str(<<"G", "e", "n", "e", "r", "a", "l", ";", " ", "R", "o", "m", "a", "n">>)>> >>)>> >>,
       \* dt.datetime values on one day
       << <<"date", Datetime(2025, 1, 1, 12, 0, 0)>>, <<"name", Str(<<"A">>)>> >>,
       << <<"date", Datetime(2025, 1, 1, 10, 0, 0)>>, <<"name", Str(<<"B">>)>> >>,
       \* an ISO datetime string under `start`
       << <<"start", Str(<<"2", "0", "2", "5", "-", "0", "1", "-", "0", "1", "T", "1", "0", ":", "0", "0", ":", "0", "0">>)>>, <<"title", Str(<<"a", "!">>)>> >>,
       \* a Unix timestamp: 2025-01-01T10:00:00Z
       << <<"date", Num(1735725600)>>, <<"id", Str(<<"A">>)>>,
          <<"isOptional", Bool(FALSE)>> >>,
       \* neither `date` nor `start`
       << <<"name", Str(<<"E", "a", "s", "t", "e", "r", " ", "S", "u", "n", "d", "a", "y">>)>> >>,
       \* an explicit uid with line terminators in it
       << <<"date", Str(<<"2", "0", "2", "5", "-", "0", "4", "-", "2", "0">>)>>,
          <<"uid", Str(<<"x", "\r", "\n", "E", "N", "D", ":", "V", "E", "V", "E", "N", "T", "\r", "\n", "B", "E", "G", "I", "N", ":", "V", "E", "V", "E", "N", "T">>)>>,
          <<"name", Str(<<"E", "a", "s", "t", "e", "r", " ", "S", "u", "n", "d", "a", "y">>)>> >>,
       \* an explicit identifier with its own domain, the last day of a year,
       \* a summary and a note that need folding
       << <<"date", Str(<<"2", "0", "2", "5", "-", "1", "2", "-", "3", "1">>)>>,
          <<"identifier", Str(<<"s", "y", "l", "v", "e", "s", "t", "e", "r", "@", "e", "x", "a", "m", "p", "l", "e", ".", "o", "r", "g">>)>>,
          <<"name", Str(Repeat("S", 40) \o <<";", " ", "\\", "\n">> \o Repeat("s", 40))>>,
          <<"notes", Str(Repeat("n", 150))>> >>,
       \* a date that does not parse
       << <<"date", Str(<<"2", "0", "2", "5", "-", "0", "2", "-", "3", "0">>)>>, <<"name", Str(<<"A">>)>> >> >>

\* Configurations: none given, a custom one, one with a long product id.
ConfigPool ==
    << None,
       [CalendarConfigDefaults EXCEPT !.name = <<"T", "e", "s", "t", ",", " ", "C", "a", "l", "e", "n", "d", "a", "r">>,
                                      !.domain = <<"e", "x", "a", "m", "p", "l", "e", ".", "c", "o", "m">>],
       [CalendarConfigDefaults EXCEPT !.prodid = Repeat("P", 80)] >>

\* Values of the clock at the call.
ClockPool == <<Datetime(2025, 1, 1, 0, 0, 0), Datetime(2026, 11, 4, 20, 57, 20)>>

\* Record sequences of up to MaxEvents records of the pool.
EventInputs ==
    UNION {{[i \in 1..k |-> EventPool[idx[i]]] : idx \in [1..k -> 1..Len(EventPool)]}
               : k \in 0..MaxEvents}

(***************************************************************************)
(* Specifications.                                                         *)
(***************************************************************************)
\* _fold_line on its own
InitFold ==
    /\ pc = "call"
    /\ line \in FoldInputs /\ chunks = <<>>
    /\ value = <<>> /\ escaped = <<>>
    /\ events = <<>> /\ cfg = None /\ now = None /\ result = None
    /\ args = None /\ fetched = <<>> /\ calls = <<>> /\ file = None /\ outcome = None

FoldLine ==
    /\ pc = "call"
    /\ chunks' = _fold_line(line)
    /\ pc' = "return"
    /\ UNCHANGED <<line, value, escaped, events, cfg, now, result, args, fetched, calls, file, outcome>>

SpecFold == InitFold /\ [][FoldLine]_vars

\* _escape_text on its own
InitEscape ==
    /\ pc = "call"
    /\ value \in EscapeInputs /\ escaped = <<>>
    /\ line = <<>> /\ chunks = <<>>
    /\ events = <<>> /\ cfg = None /\ now = None /\ result = None
    /\ args = None /\ fetched = <<>> /\ calls = <<>> /\ file = None /\ outcome = None

EscapeText ==
    /\ pc = "call"
    /\ escaped' = _escape_text(value)
    /\ pc' = "return"
    /\ UNCHANGED <<line, chunks, value, events, cfg, now, result, args, fetched, calls, file, outcome>>

SpecEscape == InitEscape /\ [][EscapeText]_vars

\* build_icalendar
Init ==
    /\ pc = "call"
    /\ events \in EventInputs
    /\ \E i \in 1..Len(ConfigPool) : cfg = ConfigPool[i]
    /\ now = None /\ result = None
    /\ line = <<>> /\ chunks = <<>>
    /\ value = <<>> /\ escaped = <<>>
    /\ args = None /\ fetched = <<>> /\ calls = <<>> /\ file = None /\ outcome = None

BuildICalendar ==
    /\ pc = "call"
    /\ \E i \in 1..Len(ClockPool) :
          /\ now' = ClockPool[i]
          /\ result' = build_icalendar(events, cfg, ClockPool[i])
    /\ pc' = "return"
    /\ UNCHANGED <<line, chunks, value, escaped, events, cfg,
                   args, fetched, calls, file, outcome>>

Next == BuildICalendar

Spec == Init /\ [][Next]_vars

\* Lists of up to MaxYears years.
YearInputs == UNION {[1..k -> {2025, 2026}] : k \in 0..MaxYears}

\* Options given on the command line.
GivenPool ==
    << <<>>,
       [name |-> <<"M", "y", " ", "C", "a", "l", "e", "n", "d", "a", "r">>, domain |-> <<"e", "x", "a", "m", "p", "l", "e", ".", "c", "o", "m">>],
       [method |-> <<>>],
       [method |-> <<" ", "N", "o", "n", "e", " ">>, refresh_interval |-> <<" ", "P", "2", "D", " ">>],
       [refresh_interval |-> <<>>, published_ttl |-> <<"P", "T", "1", "2", "H">>],
       [method |-> <<"R", "E", "Q", "U", "E", "S", "T">>, published_ttl |-> <<"n", "o", "n", "e">>] >>

\* Values a caller of generate_calendar passes for an optional setting.
OptionalPool == <<None, Str(<<>>), Str(<<"P", "U", "B", "L", "I", "S", "H">>)>>

\* generate_calendar and main
InitCli ==
    /\ pc = "call"
    /\ args = None /\ fetched = <<>> /\ calls = <<>> /\ file = None /\ outcome = None
    /\ now = None /\ events = <<>> /\ cfg = None /\ result = None
    /\ line = <<>> /\ chunks = <<>>
    /\ value = <<>> /\ escaped = <<>>

\* What fetch_calendar may answer for each year of a list.
AnswersFor(years) ==
    {answers \in [1..Len(years) -> UNION {FetchOutcomes(y) : y \in {2025, 2026}}] :
        \A k \in 1..Len(years) : answers[k] \in FetchOutcomes(years[k])}

\* The state after the call of generate_calendar with keyword arguments a,
\* answers of the source and a clock value.
Called(a, answers, clock) ==
    /\ args' = a
    /\ fetched' = answers
    /\ now' = clock
    /\ \E r \in {generate_calendar(a, answers, clock)} :
           /\ calls' = r.calls
           /\ file' = r.file
           /\ outcome' = r.outcome
    /\ pc' = "return"
    /\ UNCHANGED <<line, chunks, value, escaped, events, cfg, result>>

\* generate_calendar called from Python
GenerateCalendar ==
    /\ pc = "call"
    /\ \E years \in YearInputs :
       \E m, r, p \in 1..Len(OptionalPool) :
       \E answers \in AnswersFor(years) :
       \E i \in 1..Len(ClockPool) :
           Called([parse_args(years, <<"c", "a", "l", "e", "n", "d", "a", "r", ".", "i", "c", "s">>, <<>>)
                      EXCEPT !.method = OptionalPool[m],
                             !.refresh_interval = OptionalPool[r],
                             !.published_ttl = OptionalPool[p]],
                  answers, ClockPool[i])

\* main called with a command line: at least one year
Main ==
    /\ pc = "call"
    /\ \E years \in YearInputs \ {<<>>} :
       \E g \in 1..Len(GivenPool) :
       \E answers \in AnswersFor(years) :
       \E i \in 1..Len(ClockPool) :
           Called(parse_args(years, <<"c", "a", "l", "e", "n", "d", "a", "r", ".", "i", "c", "s">>, GivenPool[g]), answers, ClockPool[i])

NextCli == GenerateCalendar \/ Main

SpecCli == InitCli /\ [][NextCli]_vars

(***************************************************************************)
(* _normalise_event on its own, for the description it assembles.          *)
(***************************************************************************)
\* Optional keys of a raw record with values of every shape the description
\* code distinguishes: absent, null, falsy and truthy.
FieldPool ==
    << <<"rankName", Str(<<"F", "E", "A", "S", "T">>)>>,
       <<"rank", Num(0)>>,
       <<"liturgicalColors", List(<<Str(<<"w", "h", "i", "t", "e">>), None, Str(<<"g", "o", "l", "d">>)>>)>>,
       <<"season", Str(<<>>)>>,
       <<"type", None>>,
       <<"isHolyDayOfObligation", Bool(FALSE)>>,
       <<"isOptional", Num(0)>>,
       <<"week", Num(0)>>,
       <<"liturgicalWeek", Num(3)>>,
       <<"cycle", Str(<<"B">>)>>,
       <<"note", Str(<<"v", "i", "g", "i", "l">>)>>,
       <<"notes", Bool(FALSE)>>,
       <<"commemorations", List(<<Str(<<"a">>), None>>)>>,
       <<"metadata", Map(<< <<<<"s", "o", "u", "r", "c", "e">>, None>> >>)>>,
       <<"meta", Map(<< <<<<"k">>, Num(1)>> >>)>> >>

\* Records with a date, a name and up to MaxFields of the optional keys.
RecordInputs ==
    UNION {{ << <<"date", Str(<<"2", "0", "2", "5", "-", "0", "1", "-", "0", "1">>)>>, <<"name", Str(<<"X">>)>> >>
                 \o [j \in 1..k |-> FieldPool[idx[j]]] :
             idx \in {f \in [1..k -> 1..Len(FieldPool)] :
                         \A i, j \in 1..k : i < j => f[i] < f[j]}}
               : k \in 0..MaxFields}

InitNormalise ==
    /\ pc = "call"
    /\ \E record \in RecordInputs : events = <<record>>
    /\ cfg = None
    /\ now = None /\ result = None
    /\ line = <<>> /\ chunks = <<>>
    /\ value = <<>> /\ escaped = <<>>
    /\ args = None /\ fetched = <<>> /\ calls = <<>> /\ file = None /\ outcome = None

NormaliseEvent ==
    /\ pc = "call"
    /\ result' = _normalise_event(events[1], ConfigOrDefault(cfg))
    /\ pc' = "return"
    /\ UNCHANGED <<line, chunks, value, escaped, events, cfg, now,
                   args, fetched, calls, file, outcome>>

SpecNormalise == InitNormalise /\ [][NormaliseEvent]_vars

(***************************************************************************)
(* Reading a feed back, the way the tests do (_extract_events).            *)
(***************************************************************************)
\* text.split("\r\n")
SplitCRLF(text) ==
    LET seps == {i \in 1..(Len(text) - 1) : text[i] = "\r" /\ text[i + 1] = "\n"}
        n == Cardinality(seps)
        pos(k) == CHOOSE p \in seps : Cardinality({q \in seps : q < p}) = k - 1
        first(k) == IF k = 1 THEN 1 ELSE pos(k - 1) + 2
        last(k) == IF k = n + 1 THEN Len(text) ELSE pos(k) - 1
    IN  ListOf([k \in 1..(n + 1) |-> SubSeq(text, first(k), last(k))])

\* l.startswith(prefix)
StartsWith(l, prefix) == Len(l) >= Len(prefix) /\ SubSeq(l, 1, Len(prefix)) = prefix

\* Physical lines with every continuation line (one leading space) joined
\* to the line it continues.
Unfolded(lines) ==
    LET heads == {i \in 1..Len(lines) : ~StartsWith(lines[i], <<" ">>)}
        n == Cardinality(heads)
        head(k) == CHOOSE h \in heads : Cardinality({g \in heads : g < h}) = k - 1
        last(k) == IF k = n THEN Len(lines) ELSE head(k + 1) - 1
    IN  [k \in 1..n |->
            lines[head(k)]
                \o Concat([j \in 1..(last(k) - head(k)) |-> Tail(lines[head(k) + j])])]

\* The values of the unfolded lines that open with `prefix`, in order.
ValuesOf(text, prefix) ==
    LET hits == SelectSeq(Unfolded(SplitCRLF(text)), LAMBDA l : StartsWith(l, prefix))
    IN  [k \in 1..Len(hits) |-> Drop(hits[k], Len(prefix))]

\* The text an escaped value stands for: a backslash announces the next
\* character, `n` after it being a newline.
RECURSIVE UnescapeFrom(_, _)
UnescapeFrom(s, i) ==
    IF i > Len(s) THEN <<>>
    ELSE IF s[i] = "\\" /\ i < Len(s)
         THEN <<(IF s[i + 1] = "n" THEN "\n" ELSE s[i + 1])>> \o UnescapeFrom(s, i + 2)
         ELSE <<s[i]>> \o UnescapeFrom(s, i + 1)

\* a <= b, character by character on code points
StrLessEq(a, b) == a = b \/ StrLess(a, b)

\* evs rearranged by the permutation p of its indices
Permuted(evs, p) == [i \in 1..Len(evs) |-> evs[p[i]]]

\* The call has returned a text.
Returned == pc = "return" /\ result.ok

\* The normalised form of the k-th record of the call.
Normalised(k) == _normalise_event(events[k], ConfigOrDefault(cfg))

\* The k-th record carries no explicit uid, so that its uid is derived.
DerivesUid(k) == ~Truthy(Or(Get(events[k], "uid"), Get(events[k], "identifier")))

\* The slug of the k-th record: the `slug` key, else the slugified summary.
SlugOf(k) ==
    IF Truthy(Get(events[k], "slug")) THEN PyStr(Get(events[k], "slug"))
    ELSE _slugify(Normalised(k).val.summary.s)

\* The calendar day of a date or datetime value.
DayOf(dv) == <<dv.y, dv.m, dv.d>>

(***************************************************************************)
(* C1: in every returned feed the entries are in ascending order of        *)
(* (date, summary): of two consecutive entries the first has the smaller   *)
(* date, or the same date and a raw summary that is not greater.           *)
(***************************************************************************)
C1_EntriesAscending ==
    Returned =>
        LET dates == ValuesOf(result.val, <<"D", "T", "S", "T", "A", "R", "T", ";", "V", "A", "L", "U", "E", "=", "D", "A", "T", "E", ":">>)
            summaries == ValuesOf(result.val, <<"S", "U", "M", "M", "A", "R", "Y", ":">>)
        IN  \A k \in 1..(Len(dates) - 1) :
                \/ StrLess(dates[k], dates[k + 1])
                \/ /\ dates[k] = dates[k + 1]
                   /\ StrLessEq(UnescapeFrom(summaries[k], 1),
                                UnescapeFrom(summaries[k + 1], 1))

(***************************************************************************)
(* C2 as claimed: every permutation of the records gives the same text,    *)
(* under the same configuration and clock value.                           *)
(***************************************************************************)
C2_AnyPermutationSameText ==
    Returned =>
        \A p \in Permutations(1..Len(events)) :
            build_icalendar(Permuted(events, p), cfg, now) = result

\* No two records tie on (date, summary) while differing in uid,
\* description or categories.
TiesAreIdentical ==
    LET n == ListOf([k \in 1..Len(events) |-> Normalised(k)])
    IN  \A i, j \in 1..Len(events) :
            (/\ n[i].ok /\ n[j].ok
             /\ DayOf(n[i].val.date) = DayOf(n[j].val.date)
             /\ n[i].val.summary = n[j].val.summary)
            => /\ n[i].val.uid = n[j].val.uid
               /\ n[i].val.description = n[j].val.description
               /\ n[i].val.categories = n[j].val.categories

(***************************************************************************)
(* C2 as amended: every permutation of the records gives the same text     *)
(* when the records that share date and summary also share uid,            *)
(* description and categories.                                             *)
(***************************************************************************)
C2_PermutationSameTextWithoutTies ==
    (Returned /\ TiesAreIdentical) =>
        \A p \in Permutations(1..Len(events)) :
            build_icalendar(Permuted(events, p), cfg, now) = result

\* Two different records, given latest first, were put in date order.
C2_Witness ==
    /\ Returned /\ TiesAreIdentical
    /\ Len(events) = 2
    /\ KeyLess(Normalised(2).val, Normalised(1).val)
    /\ ValuesOf(result.val, <<"U", "I", "D", ":">>) = <<Normalised(2).val.uid, Normalised(1).val.uid>>

(***************************************************************************)
(* C3: every physical line of a returned feed has at most 75 characters.   *)
(***************************************************************************)
C3_PhysicalLinesAtMost75 ==
    Returned =>
        \A l \in {SplitCRLF(result.val)[k] : k \in 1..Len(SplitCRLF(result.val))} :
            Len(l) <= 75

(***************************************************************************)
(* C4: _fold_line returns the line alone when it has at most 75            *)
(* characters; otherwise its first 75 characters, then fragments of one    *)
(* space and 1 to 74 characters, which rejoin to the line exactly.         *)
(***************************************************************************)
C4_FoldLine ==
    pc = "return" =>
        IF Len(line) <= 75 THEN chunks = <<line>>
        ELSE /\ Len(chunks) >= 2
             /\ chunks[1] = SubSeq(line, 1, 75)
             /\ \A k \in 2..Len(chunks) :
                    /\ Len(chunks[k]) \in 2..75
                    /\ chunks[k][1] = " "
             /\ chunks[1] \o Concat([k \in 1..(Len(chunks) - 1) |-> Tail(chunks[k + 1])]) = line

\* A line that needed more than two continuation fragments was folded.
C4_Witness == pc = "return" /\ Len(line) > 75 + 2 * 74 /\ Len(chunks) = 4

\* The substitution of C5 for one character.
EscapedChar(c) ==
    CASE c = "\\" -> <<"\\", "\\">>
      [] c = "\n" -> <<"\\", "n">>
      [] c = "\r" -> <<>>
      [] c = "," -> <<"\\", ",">>
      [] c = ";" -> <<"\\", ";">>
      [] OTHER -> <<c>>

(***************************************************************************)
(* C5: _escape_text is the character-by-character substitution             *)
(* (backslash doubled, newline to backslash-n, carriage return dropped,    *)
(* comma and semicolon prefixed by a backslash), and it returns a string   *)
(* with none of the five characters unchanged.                             *)
(***************************************************************************)
C5_EscapeText ==
    pc = "return" =>
        /\ escaped = Concat([i \in 1..Len(value) |-> EscapedChar(value[i])])
        /\ (\A i \in 1..Len(value) : value[i] \notin {"\\", "\n", "\r", ",", ";"})
               => escaped = value

\* A string with a newline, a comma and a backslash was escaped.
C5_Witness ==
    /\ pc = "return"
    /\ {"\\", "\n", ","} \subseteq {value[i] : i \in 1..Len(value)}
    /\ Len(escaped) = Len(value) + 3

\* NAME or NAME;PARAM=VALUE, a colon, and a value
IsPropertyLine(l) ==
    \E i \in 2..Len(l) :
        /\ l[i] = ":"
        /\ \A j \in 1..(i - 1) :
               \/ Ord(l[j]) \in 65..90
               \/ l[j] \in {"-", ";", "="}

(***************************************************************************)
(* C6: a returned feed of n records opens with BEGIN:VCALENDAR, closes     *)
(* with END:VCALENDAR and a terminator, holds exactly n entry blocks,      *)
(* BEGIN:VEVENT and END:VEVENT alternating, and every physical line is a   *)
(* property line or a continuation line.                                   *)
(***************************************************************************)
C6_DocumentStructure ==
    Returned =>
        LET lines == SplitCRLF(result.val)
            marks == SelectSeq(lines, LAMBDA l :
                         l \in {<<"B", "E", "G", "I", "N", ":", "V", "E", "V", "E", "N", "T">>, <<"E", "N", "D", ":", "V", "E", "V", "E", "N", "T">>})
        IN  /\ Len(lines) >= 3
            /\ lines[1] = <<"B", "E", "G", "I", "N", ":", "V", "C", "A", "L", "E", "N", "D", "A", "R">>
            /\ lines[Len(lines) - 1] = <<"E", "N", "D", ":", "V", "C", "A", "L", "E", "N", "D", "A", "R">>
            /\ lines[Len(lines)] = <<>>
            /\ Len(marks) = 2 * Len(events)
            /\ \A k \in 1..Len(marks) :
                   marks[k] = IF k % 2 = 1 THEN <<"B", "E", "G", "I", "N", ":", "V", "E", "V", "E", "N", "T">> ELSE <<"E", "N", "D", ":", "V", "E", "V", "E", "N", "T">>
            /\ \A k \in 1..(Len(lines) - 1) :
                   IsPropertyLine(lines[k]) \/ StartsWith(lines[k], <<" ">>)

(***************************************************************************)
(* C7: no two entries of a returned feed carry the same UID.               *)
(***************************************************************************)
C7_UidsUnique ==
    Returned =>
        LET uids == ValuesOf(result.val, <<"U", "I", "D", ":">>)
        IN  \A i, j \in 1..Len(uids) : i # j => uids[i] # uids[j]

(***************************************************************************)
(* C8: two records without explicit uid that resolve to the same calendar  *)
(* date and the same slug get the same uid, whatever the shape of their    *)
(* date value.                                                             *)
(***************************************************************************)
C8_SameDateAndSlugSameUid ==
    pc = "return" =>
        \A i, j \in 1..Len(events) :
            (/\ Normalised(i).ok /\ Normalised(j).ok
             /\ DerivesUid(i) /\ DerivesUid(j)
             /\ DayOf(Normalised(i).val.date) = DayOf(Normalised(j).val.date)
             /\ SlugOf(i) = SlugOf(j))
            => Normalised(i).val.uid = Normalised(j).val.uid

\* The k-th record has neither a `date` nor a `start` key.
LacksDate(k) == ~Has(events[k], "date") /\ ~Has(events[k], "start")

(***************************************************************************)
(* C9: when a record at any position has neither `date` nor `start`, the   *)
(* call raises and returns no text.                                        *)
(***************************************************************************)
C9_MissingDateFailsWholeCall ==
    (pc = "return" /\ \E k \in 1..Len(events) : LacksDate(k)) =>
        /\ ~result.ok
        /\ DOMAIN result = {"ok", "err"}

\* A valid record came first and the record without a date second.
C9_Witness ==
    /\ pc = "return"
    /\ Len(events) = 2
    /\ Normalised(1).ok /\ LacksDate(2)
    /\ result = Raise("KeyError")

\* The header of a feed: its physical lines before the first entry.
HeaderOf(text) ==
    LET lines == SplitCRLF(text)
        opens == {k \in 1..Len(lines) : lines[k] \in {<<"B", "E", "G", "I", "N", ":", "V", "E", "V", "E", "N", "T">>, <<"E", "N", "D", ":", "V", "C", "A", "L", "E", "N", "D", "A", "R">>}}
    IN  SubSeq(lines, 1, (CHOOSE k \in opens : \A j \in opens : k <= j) - 1)

\* The header of the written file has the property `prefix` exactly when the
\* setting was configured to a non-empty value, and then with that value.
HeaderCarries(prefix, setting) ==
    LET hits == SelectSeq(HeaderOf(file.s), LAMBDA l : StartsWith(l, prefix))
    IN  IF _normalise_optional(setting) = None THEN hits = <<>>
        ELSE hits = <<prefix \o _normalise_optional(setting).s>>

(***************************************************************************)
(* C10: generate_calendar passes method, refresh interval and published    *)
(* TTL through the configuration, and the header of the feed it writes     *)
(* holds each of the three properties exactly when its value was           *)
(* configured non-empty.                                                   *)
(***************************************************************************)
C10_OptionalHeaderProperties ==
    (pc = "return" /\ \A k \in 1..Len(fetched) : fetched[k].ok) =>
        /\ outcome.ok
        /\ file.t = "str"
        /\ HeaderCarries(<<"M", "E", "T", "H", "O", "D", ":">>, args.method)
        /\ HeaderCarries(<<"R", "E", "F", "R", "E", "S", "H", "-", "I", "N", "T", "E", "R", "V", "A", "L", ";", "V", "A", "L", "U", "E", "=", "D", "U", "R", "A", "T", "I", "O", "N", ":">>, args.refresh_interval)
        /\ HeaderCarries(<<"X", "-", "P", "U", "B", "L", "I", "S", "H", "E", "D", "-", "T", "T", "L", ":">>, args.published_ttl)

\* The records of every answer of the source, in the order of the years.
FetchedRecords == Concat([k \in 1..Len(fetched) |-> fetched[k].val])

\* The text in which the feed gives the name of a record.
SummaryLineOf(record) == <<"S", "U", "M", "M", "A", "R", "Y", ":">> \o _escape_text(PyStr(Get(record, "name")))

(***************************************************************************)
(* C11: generate_calendar (and main) calls the source once for each        *)
(* requested year, in the order given, and then writes to the output path  *)
(* one feed with an entry for every record of every answer.                *)
(***************************************************************************)
C11_FetchesEachYearThenWritesFeed ==
    (pc = "return" /\ \A k \in 1..Len(fetched) : fetched[k].ok) =>
        /\ calls = args.years
        /\ outcome = Return(args.output)
        /\ file.t = "str"
        /\ Len(ValuesOf(file.s, <<"U", "I", "D", ":">>)) = Len(FetchedRecords)
        /\ \A k \in 1..Len(FetchedRecords) :
              \E j \in 1..Len(SplitCRLF(file.s)) :
                  SplitCRLF(file.s)[j] = SummaryLineOf(FetchedRecords[k])

\* The day after the day written as YYYYMMDD, written the same way.
NextDayText(ymd) ==
    LET num(lo, hi) ==
            IF hi - lo = 3
            THEN DigitVal(ymd[lo]) * 1000 + DigitVal(ymd[lo + 1]) * 100
                     + DigitVal(ymd[lo + 2]) * 10 + DigitVal(ymd[hi])
            ELSE DigitVal(ymd[lo]) * 10 + DigitVal(ymd[hi])
    IN  StrftimeYmd(PlusOneDay(Date(num(1, 4), num(5, 6), num(7, 8))))

(***************************************************************************)
(* C12: the date of every record that normalises is a pure calendar date   *)
(* without a time of day, whatever shape the input had, so that the dates  *)
(* of any two events can be compared, and in a returned feed the end date  *)
(* of every entry is its start date plus one day.                          *)
(***************************************************************************)
C12_CanonicalDateIsPureDate ==
    pc = "return" =>
        LET n == ListOf([k \in 1..Len(events) |-> Normalised(k)])
            starts == ValuesOf(result.val, <<"D", "T", "S", "T", "A", "R", "T", ";", "V", "A", "L", "U", "E", "=", "D", "A", "T", "E", ":">>)
            ends == ValuesOf(result.val, <<"D", "T", "E", "N", "D", ";", "V", "A", "L", "U", "E", "=", "D", "A", "T", "E", ":">>)
        IN  /\ \A k \in 1..Len(events) : n[k].ok => n[k].val.date.t = "date"
            /\ \A i, j \in 1..Len(events) :
                  (n[i].ok /\ n[j].ok) => n[i].val.date.t = n[j].val.date.t
            /\ result.ok =>
                  /\ Len(starts) = Len(events) /\ Len(ends) = Len(events)
                  /\ \A e \in 1..Len(starts) : ends[e] = NextDayText(starts[e])

\* The value a label of the description is taken from.
SourceValue(event, key, other) == Or(Get(event, key), Get(event, other))

\* The labels of the description with their source values, in the order of
\* the claim, Notes last.
LabelledSources(event) ==
    << <<<<"R", "a", "n", "k">>, SourceValue(event, "rankName", "rank")>>,
       <<<<"L", "i", "t", "u", "r", "g", "i", "c", "a", "l", " ", "c", "o", "l", "o", "r">>, SourceValue(event, "liturgicalColor", "liturgicalColors")>>,
       <<<<"S", "e", "a", "s", "o", "n">>, SourceValue(event, "season", "liturgicalSeason")>>,
       <<<<"T", "y", "p", "e">>, SourceValue(event, "type", "liturgicalType")>>,
       <<<<"H", "o", "l", "y", " ", "d", "a", "y", " ", "o", "f", " ", "o", "b", "l", "i", "g", "a", "t", "i", "o", "n">>, Get(event, "isHolyDayOfObligation")>>,
       <<<<"O", "p", "t", "i", "o", "n", "a", "l", " ", "m", "e", "m", "o", "r", "i", "a", "l">>, Get(event, "isOptional")>>,
       <<<<"W", "e", "e", "k">>, SourceValue(event, "week", "liturgicalWeek")>>,
       <<<<"C", "y", "c", "l", "e">>, SourceValue(event, "cycle", "liturgicalCycle")>>,
       <<<<"N", "o", "t", "e", "s">>, SourceValue(event, "note", "notes")>> >>

\* The lines the claim gives the description: the two blocks when present,
\* then a line for each label whose source value is not null and has a
\* non-empty text.
ClaimedLines(event) ==
    LET commemorations == SourceValue(event, "commemorations", "secondaryCelebrations")
        metadata == SourceValue(event, "metadata", "meta")
        sources == LabelledSources(event)
        labelled(p) ==
            IF p[2].t # "none" /\ Len(_stringify(p[2])) > 0
            THEN <<(p[1] \o <<":", " ">> \o _stringify(p[2]))>>
            ELSE <<>>
    IN  (IF Truthy(commemorations)
         THEN <<(<<"C", "o", "m", "m", "e", "m", "o", "r", "a", "t", "i", "o", "n", "s", ":", " ">> \o _stringify(commemorations))>> ELSE <<>>)
        \o (IF Truthy(metadata) THEN <<_stringify(metadata)>> ELSE <<>>)
        \o Concat([i \in 1..Len(sources) |-> labelled(sources[i])])

\* No line of the text d is empty.
NoBlankLine(d) ==
    d # <<>> =>
        /\ d[1] # "\n" /\ d[Len(d)] # "\n"
        /\ \A i \in 1..(Len(d) - 1) : ~(d[i] = "\n" /\ d[i + 1] = "\n")

(***************************************************************************)
(* C13: the description of a normalised event is the newline-join, with    *)
(* no blank lines, of the Commemorations line and the metadata block when  *)
(* present and then one "Label: value" line for each of Rank, Liturgical   *)
(* color, Season, Type, Holy day of obligation, Optional memorial, Week,   *)
(* Cycle and Notes, a line being there exactly when its source value is    *)
(* not null and stringifies to a non-empty text.                           *)
(***************************************************************************)
C13_DescriptionLines ==
    (pc = "return" /\ result.ok) =>
        /\ result.val.description = Join(ClaimedLines(events[1]), <<"\n">>)
        /\ NoBlankLine(result.val.description)
====
